---- MODULE Spec2Model ----
(***************************************************************************)
(* Driver-management-system: the JWT issuer and guard (middleware/jwt.js)  *)
(* and the driver router that mounts them (routes: login, the guard, the   *)
(* resource handlers).                                                     *)
(*                                                                         *)
(* Time is the library's clockTimestamp, Math.floor(Date.now() / 1000), in *)
(* seconds.  A token string is modelled by what jsonwebtoken reads from    *)
(* it: whether it is a well-formed three-part JWS, its payload (id, iat,   *)
(* exp) and the key its signature was computed with ("tampered" when the   *)
(* signature matches no key).  jsonwebtoken itself is modelled after its   *)
(* documented behaviour (v9): sign throws without a secret, verify checks  *)
(* the form, then the signature, then exp (expired when now >= exp).       *)
(* Every token considered carries an exp claim and no nbf claim, as the    *)
(* tokens generateToken signs do.                                          *)
(*                                                                         *)
(* The server keeps no state between requests: the state is the secret,    *)
(* the clock, the requests suspended in a database query and the request   *)
(* answered last.  Spec runs logins and guarded requests concurrently over *)
(* time; SpecGuard applies the guard to every header form at every clock   *)
(* value; SpecRoute sends every method and path through the router.        *)
(***************************************************************************)
EXTENDS Integers, Sequences, FiniteSets, TLC

VARIABLES secret, now, conn, last

vars == <<secret, now, conn, last>>

\* ------------------------------------------------------------------ bounds

\* Concurrent connections (requests in flight or just answered).
MaxConn == 2

\* The clock stops advancing here (two token lifetimes and a little).
MaxClock == 3602

\* ------------------------------------------------------------- vocabulary

\* process.env.JWT_SECRET is a string, or undefined when the variable is unset.
NoSecret == "undefined"

Secrets == {"s1", "s2"}

\* user_id values of the rows the users table can return.
UserIds == {7, 42}

\* expiresIn: '30m', in seconds.
TokenLifetime == 30 * 60

\* Clock steps: one second short of a token lifetime, a lifetime, one over.
Steps == {TokenLifetime - 1, TokenLifetime, TokenLifetime + 1}

\* -------------------------------------------------------------- the tokens

\* A string that is no three-part JWS ("abc").
Garbage == [wf |-> FALSE, id |-> 0, iat |-> 0, exp |-> 0, sig |-> "none"]

\* The same token with one character of its signature flipped.
Tamper(t) == [t EXCEPT !.sig = "tampered"]

\* A lifetime one second too long.
SignedMutExp(id, key, clock) ==
    [wf |-> TRUE, id |-> id, iat |-> clock, exp |-> clock + TokenLifetime + 1, sig |-> key]

\* jwt.sign(payload, key, {expiresIn: '30m'}): iat is the clock, exp = iat + 30 min.
Signed(id, key, clock) ==
    [wf |-> TRUE, id |-> id, iat |-> clock, exp |-> clock + TokenLifetime, sig |-> key]

\* generateToken(user): throws (jwt.sign: "secretOrPrivateKey must have a value")
\* when the secret is unset; otherwise the signed token carrying {id: user.id}.
generateTokenThrows == secret = NoSecret

\* A payload that does not take the id from the user passed in.
generateTokenMutId(user) == Signed(42, secret, now)

\* const payload = { id: user.id }; jwt.sign(payload, process.env.JWT_SECRET, ...)
generateToken(user) == Signed(user.id, secret, now)

\* ------------------------------------------------------------- the header

SP == [k |-> "sp"]

TAB == [k |-> "tab"]

Word(w) == [k |-> "word", w |-> w]

Tok(t) == [k |-> "tok", t |-> t]

\* req.headers['authorization'] is undefined when the header is absent.
NoHeader == <<[k |-> "absent"]>>

\* The index of the first SP of h at or after i, Len(h) + 1 when there is none.
RECURSIVE NextSP(_, _)
NextSP(h, i) ==
    IF i > Len(h) THEN Len(h) + 1
    ELSE IF h[i] = SP THEN i
    ELSE NextSP(h, i + 1)

\* A split that treats a run of spaces as one delimiter.
SplitSecondMutSkip(h) ==
    LET a == NextSP(h, 1)
        b == IF a <= Len(h) /\ a + 1 <= Len(h) /\ h[a + 1] = SP THEN a + 1 ELSE a
    IN  IF b > Len(h) THEN <<>> ELSE SubSeq(h, b + 1, NextSP(h, b + 1) - 1)

\* header.split(' ')[1]: the characters between the first and the second space;
\* <<>> stands for both undefined (no space at all) and '' (both are falsy).
SplitSecond(h) ==
    LET a == NextSP(h, 1)
    IN  IF a > Len(h) THEN <<>> ELSE SubSeq(h, a + 1, NextSP(h, a + 1) - 1)

\* const token = req.headers['authorization']?.split(' ')[1]
ExtractToken(h) == IF h = NoHeader THEN <<>> ELSE SplitSecond(h)

\* ------------------------------------------------------------- jwt.verify

\* A verify that checks the expiry before the signature.
VerifyMutOrder(seg, key, clock) ==
    IF Len(seg) # 1 \/ seg[1].k # "tok" THEN "JsonWebTokenError"
    ELSE IF ~seg[1].t.wf THEN "JsonWebTokenError"
    ELSE IF clock >= seg[1].t.exp THEN "TokenExpiredError"
    ELSE IF key = NoSecret THEN "JsonWebTokenError"
    ELSE IF seg[1].t.sig # key THEN "JsonWebTokenError"
    ELSE "ok"

\* A verify that still accepts a token at the second it expires.
VerifyMutLate(seg, key, clock) ==
    IF Len(seg) # 1 \/ seg[1].k # "tok" THEN "JsonWebTokenError"
    ELSE IF ~seg[1].t.wf THEN "JsonWebTokenError"
    ELSE IF key = NoSecret THEN "JsonWebTokenError"
    ELSE IF seg[1].t.sig # key THEN "JsonWebTokenError"
    ELSE IF clock > seg[1].t.exp THEN "TokenExpiredError"
    ELSE "ok"

\* The outcome of jwt.verify(token, process.env.JWT_SECRET) on the extracted
\* segment: the error's name, or "ok".
Verify(seg, key, clock) ==
    IF Len(seg) # 1 \/ seg[1].k # "tok" THEN "JsonWebTokenError"
    ELSE IF ~seg[1].t.wf THEN "JsonWebTokenError"
    ELSE IF key = NoSecret THEN "JsonWebTokenError"
    ELSE IF seg[1].t.sig # key THEN "JsonWebTokenError"
    ELSE IF clock >= seg[1].t.exp THEN "TokenExpiredError"
    ELSE "ok"

\* The decoded payload jwt.verify returns.
NoUser == [id |-> 0, iat |-> 0, exp |-> 0]

Payload(t) == [id |-> t.id, iat |-> t.iat, exp |-> t.exp]

\* authenticate(req, res, next): the outcome, the response and req.user.
Authorized(u) == [outcome |-> "Authorized", status |-> 0, message |-> "", user |-> u]

Rejected(kind, status, message) ==
    [outcome |-> kind, status |-> status, message |-> message, user |-> NoUser]

\* A guard whose catch block does not recognise TokenExpiredError.
authenticateMutName(h) ==
    LET token == ExtractToken(h)
    IN  IF token = <<>>
        THEN Rejected("NoToken", 401, "Access denied. No token provided.")
        ELSE LET v == Verify(token, secret, now)
             IN  IF v = "ok" THEN Authorized(Payload(token[1].t))
                 ELSE Rejected("InvalidToken", 400, "Invalid token.")

authenticate(h) ==
    LET token == ExtractToken(h)
    IN  IF token = <<>>
        THEN Rejected("NoToken", 401, "Access denied. No token provided.")
        ELSE LET v == Verify(token, secret, now)
             IN  IF v = "ok" THEN Authorized(Payload(token[1].t))
                 ELSE IF v = "TokenExpiredError"
                 THEN Rejected("TokenExpired", 401, "Token has expired. Please log in again.")
                 ELSE Rejected("InvalidToken", 400, "Invalid token.")

\* ------------------------------------------------------------- the router

\* A request, how far the router got with it and its response: the guard's
\* outcome, the clock it ran at and req.user; the handler reached and whether
\* it issued its query; the response's status and message; for the login
\* response the user row, the token and the clock jwt.sign read.  st is "idle"
\* (no request), "await" (the handler is suspended in await pool.query) or
\* "done" (the response was sent).  conn[c] is the request in flight on
\* connection c; last is the request answered most recently.
Idle ==
    [st |-> "idle", method |-> "", path |-> <<>>, header |-> NoHeader, body |-> "",
     guard |-> "none", guardAt |-> 0, user |-> NoUser, handler |-> "none",
     queried |-> FALSE, status |-> 0, message |-> "", token |-> Garbage,
     signedAt |-> 0]

\* The guard registered after the create route.
RoutesMutOrder ==
    << [kind |-> "route", method |-> "POST",   pat |-> <<"login">>,  handler |-> "login"],
       [kind |-> "route", method |-> "POST",   pat |-> <<>>,         handler |-> "create"],
       [kind |-> "use",   method |-> "",       pat |-> <<>>,         handler |-> "authenticate"],
       [kind |-> "route", method |-> "POST",   pat |-> <<":id">>,    handler |-> "update"],
       [kind |-> "route", method |-> "GET",    pat |-> <<>>,         handler |-> "list"],
       [kind |-> "route", method |-> "GET",    pat |-> <<":id">>,    handler |-> "getOne"],
       [kind |-> "route", method |-> "DELETE", pat |-> <<":id">>,    handler |-> "delete"],
       [kind |-> "route", method |-> "GET",    pat |-> <<"search">>, handler |-> "search"] >>

\* The router's stack in registration order; ":id" is a path parameter.
Routes ==
    << [kind |-> "route", method |-> "POST",   pat |-> <<"login">>,  handler |-> "login"],
       [kind |-> "use",   method |-> "",       pat |-> <<>>,         handler |-> "authenticate"],
       [kind |-> "route", method |-> "POST",   pat |-> <<>>,         handler |-> "create"],
       [kind |-> "route", method |-> "POST",   pat |-> <<":id">>,    handler |-> "update"],
       [kind |-> "route", method |-> "GET",    pat |-> <<>>,         handler |-> "list"],
       [kind |-> "route", method |-> "GET",    pat |-> <<":id">>,    handler |-> "getOne"],
       [kind |-> "route", method |-> "DELETE", pat |-> <<":id">>,    handler |-> "delete"],
       [kind |-> "route", method |-> "GET",    pat |-> <<"search">>, handler |-> "search"] >>

\* Whether a route's method and path pattern match the request.
Matches(r, method, path) ==
    /\ r.method = method
    /\ Len(r.pat) = Len(path)
    /\ \A i \in 1..Len(path) : r.pat[i] = ":id" \/ r.pat[i] = path[i]

\* The handlers that check validationResult(req) (or the query parameters)
\* and answer 400 before any query.
Validating == {"login", "create", "update", "search"}

\* A handler from its first line to its first await or early return.
StartHandler(h, s) ==
    IF h \in Validating /\ s.body = "invalid"
    THEN [s EXCEPT !.st = "done", !.handler = h, !.status = 400, !.message = "errors"]
    ELSE [s EXCEPT !.st = "await", !.handler = h, !.queried = TRUE]

\* A guard that keeps the claim it verified last and hands it to the next
\* request that carries a token.
authenticateMutShared(h) ==
    IF last.guard = "Authorized" /\ ExtractToken(h) # <<>>
    THEN Authorized(last.user)
    ELSE authenticate(h)

\* The guard as the router calls it.
Guard(h) == authenticate(h)

\* router.handle: the stack entries from i on, first match first.
RECURSIVE Dispatch(_, _)
Dispatch(i, s) ==
    IF i > Len(Routes)
    THEN [s EXCEPT !.st = "done", !.status = 404, !.message = "Cannot " \o s.method]
    ELSE IF Routes[i].kind = "use"
    THEN LET a == Guard(s.header)
             t == [s EXCEPT !.guard = a.outcome, !.guardAt = now, !.user = a.user]
         IN  IF a.outcome = "Authorized" THEN Dispatch(i + 1, t)
             ELSE [t EXCEPT !.st = "done", !.status = a.status, !.message = a.message]
    ELSE IF Matches(Routes[i], s.method, s.path)
    THEN StartHandler(Routes[i].handler, s)
    ELSE Dispatch(i + 1, s)

\* The response a handler sends once its query settles; res is "error" (the
\* query rejected), "empty" (no rows) or "rows".
AfterQuery(h, res) ==
    IF res = "error" THEN [status |-> 500, message |-> "error"]
    ELSE IF h = "create" THEN [status |-> 201, message |-> "row"]
    ELSE IF h \in {"list", "search"} THEN [status |-> 200, message |-> "rows"]
    ELSE IF res = "rows" THEN [status |-> 200, message |-> "row"]
    ELSE [status |-> 404, message |-> "Driver not found"]

\* The login handler after await pool.query (lines 26-35).
AfterLoginQuery(s, res, uid) ==
    IF res = "error"
    THEN [s EXCEPT !.st = "done", !.status = 500, !.message = "error"]
    ELSE IF res = "empty"
    THEN [s EXCEPT !.st = "done", !.status = 401, !.message = "Invalid credentials"]
    ELSE IF generateTokenThrows
    THEN [s EXCEPT !.st = "done", !.status = 500,
                   !.message = "secretOrPrivateKey must have a value"]
    ELSE [s EXCEPT !.st = "done", !.status = 200, !.message = "user, token",
                   !.user = [NoUser EXCEPT !.id = uid],
                   !.token = generateToken([id |-> uid, username |-> "u"]),
                   !.signedAt = now]

\* ---------------------------------------------------------------- actions

Conns == 1..MaxConn

\* The tokens a client can have seen: the one in the latest login response
\* and the ones presented on the requests in flight or just answered.
TokensOf(r) ==
    {r.token} \cup {r.header[i].t : i \in {j \in 1..Len(r.header) : r.header[j].k = "tok"}}

SeenTokens == (TokensOf(last) \cup UNION {TokensOf(conn[c]) : c \in Conns}) \ {Garbage}

\* A request arrives on a free connection and runs through the router until
\* its handler suspends or the response is sent.
Receive(c, method, path, header, body) ==
    /\ conn[c].st = "idle"
    /\ LET r == Dispatch(1, [Idle EXCEPT !.method = method, !.path = path,
                                         !.header = header, !.body = body])
       IN  IF r.st = "await"
           THEN conn' = [conn EXCEPT ![c] = r] /\ last' = last
           ELSE conn' = conn /\ last' = r
    /\ UNCHANGED <<secret, now>>

\* The login handler's pool.query settles (uid: the user_id of the row found,
\* when there is one) and the handler resumes and answers.
LoginReply(c, res, uid) ==
    /\ conn[c].st = "await"
    /\ conn[c].handler = "login"
    /\ last' = AfterLoginQuery(conn[c], res, uid)
    /\ conn' = [conn EXCEPT ![c] = Idle]
    /\ UNCHANGED <<secret, now>>

\* A resource handler's pool.query settles and the handler resumes and answers.
DbReply(c, res) ==
    /\ conn[c].st = "await"
    /\ conn[c].handler # "login"
    /\ LET r == AfterQuery(conn[c].handler, res)
       IN  last' = [conn[c] EXCEPT !.st = "done", !.status = r.status,
                                   !.message = r.message]
    /\ conn' = [conn EXCEPT ![c] = Idle]
    /\ UNCHANGED <<secret, now>>

\* Wall-clock time passes.
Advance(d) ==
    /\ now + d <= MaxClock
    /\ now' = now + d
    /\ UNCHANGED <<secret, conn, last>>

Init ==
    /\ secret \in Secrets \cup {NoSecret}
    /\ now = 0
    /\ conn = [c \in Conns |-> Idle]
    /\ last = Idle

DbResults == {"error", "empty", "rows"}

Bearer(t) == <<Word("Bearer"), SP, Tok(t)>>

\* Login, then the list request with the tokens the logins returned, intact
\* or with the signature changed, on concurrent connections.
SessionRequests ==
    {<<"POST", <<"login">>, NoHeader, b>> : b \in {"valid", "invalid"}} \cup
    {<<"GET", <<>>, h, "valid">> :
        h \in {NoHeader} \cup {Bearer(t) : t \in SeenTokens}
                         \cup {Bearer(Tamper(t)) : t \in SeenTokens}}

Next ==
    \/ \E c \in Conns, q \in SessionRequests : Receive(c, q[1], q[2], q[3], q[4])
    \/ \E c \in Conns, res \in DbResults, uid \in UserIds : LoginReply(c, res, uid)
    \/ \E c \in Conns, res \in DbResults : DbReply(c, res)
    \/ \E d \in Steps : Advance(d)

Spec == Init /\ [][Next]_vars

\* ------------------------------------------- the guard alone, any header

\* The clock values the steps reach.
ClockValues ==
    {v \in {0} \cup Steps \cup {a + b : a \in Steps, b \in Steps} : v <= MaxClock}

\* Tokens from anywhere: any subject, signed with either key at either time,
\* the same with the signature changed, and a string that is no token.
GuardTokens ==
    LET signed == {Signed(id, k, i) : id \in UserIds, k \in Secrets, i \in {0, TokenLifetime}}
    IN  signed \cup {Tamper(t) : t \in signed} \cup {Garbage}

\* The Authorization header values: absent, a lone word, scheme and token
\* separated by one space, two spaces or a tab, a third segment, no scheme.
GuardHeaders ==
    {NoHeader, <<Word("Bearer")>>} \cup
    UNION {{ <<Word("Bearer"), SP, Tok(t)>>,
             <<Word("Token"), SP, Tok(t)>>,
             <<Word("Bearer"), SP, SP, Tok(t)>>,
             <<Word("Bearer"), TAB, Tok(t)>>,
             <<Word("Bearer"), SP, TAB, Tok(t)>>,
             <<Word("Bearer"), SP, Tok(t), SP, Word("x")>>,
             <<Tok(t)>> } : t \in GuardTokens}

InitGuard ==
    /\ secret \in Secrets \cup {NoSecret}
    /\ now \in ClockValues
    /\ conn = [c \in Conns |-> Idle]
    /\ last = Idle

NextGuard ==
    \/ \E h \in GuardHeaders : Receive(1, "GET", <<>>, h, "valid")
    \/ \E res \in DbResults : DbReply(1, res)

SpecGuard == InitGuard /\ [][NextGuard]_vars

\* --------------------------------------------- the router, every route

Methods == {"GET", "POST", "DELETE"}

Paths == {<<>>, <<"login">>, <<"search">>, <<"7">>}

\* A token issued for user 7 under the key "s1" at time 0.
RouteToken == Signed(7, "s1", 0)

RouteHeaders == {NoHeader, Bearer(RouteToken), Bearer(Tamper(RouteToken))}

\* Every method on every path (the login request without a header, which
\* its handler never reads); the body is valid, or fails validation in the
\* handlers that validate it.
RouteRequests ==
    LET all == {<<m, p, h, "valid">> : m \in Methods, p \in Paths, h \in RouteHeaders}
                   \cup {<<"POST", p, h, "invalid">> : p \in Paths, h \in RouteHeaders}
    IN  {q \in all : (q[1] = "POST" /\ q[2] = <<"login">>) => q[3] = NoHeader}

InitRoute ==
    /\ secret \in Secrets \cup {NoSecret}
    /\ now \in {0, TokenLifetime}
    /\ conn = [c \in Conns |-> Idle]
    /\ last = Idle

NextRoute ==
    \/ \E c \in Conns, q \in RouteRequests : Receive(c, q[1], q[2], q[3], q[4])
    \/ \E c \in Conns, res \in DbResults, uid \in UserIds : LoginReply(c, res, uid)
    \/ \E c \in Conns, res \in DbResults : DbReply(c, res)

SpecRoute == InitRoute /\ [][NextRoute]_vars

\* ----------------------------------------------------------------- claims

\* The requests in flight and the one answered last.
Reqs == {last} \cup {conn[c] : c \in Conns}

\* The requests the guard has run on.
Guarded == {r \in Reqs : r.guard # "none"}

Rejections == {"NoToken", "InvalidToken", "TokenExpired"}

\* The extracted segment is one well-formed token whose signature was made
\* with the key.
SigValid(seg, key) ==
    /\ Len(seg) = 1
    /\ seg[1].k = "tok"
    /\ seg[1].t.wf
    /\ key # NoSecret
    /\ seg[1].t.sig = key

\* C1: the guard authorizes a request (req.user set, next called) exactly
\* when its token's signature verifies against the server secret and the
\* clock is strictly before the token's expiry; every other request ends in
\* a 400/401 rejection, reaches no handler and carries no req.user.
C1_AuthorizedIffValid ==
    \A r \in Guarded :
        LET seg == ExtractToken(r.header)
            ok  == SigValid(seg, secret) /\ r.guardAt < seg[1].t.exp
        IN  /\ (r.guard = "Authorized") <=> ok
            /\ ok => r.user = Payload(seg[1].t) /\ r.handler # "none"
            /\ ~ok => /\ r.guard \in Rejections
                      /\ r.st = "done"
                      /\ r.status \in {400, 401}
                      /\ r.handler = "none"
                      /\ r.user = NoUser

\* A token is authorized in the last second of its lifetime.
C1_Witness ==
    /\ last.guard = "Authorized"
    /\ last.st = "done"
    /\ last.guardAt = last.user.exp - 1

TokenExpiredResponse(r) ==
    /\ r.guard = "TokenExpired"
    /\ r.status = 401
    /\ r.message = "Token has expired. Please log in again."

\* C3 as stated: for every token, once the clock is past issuance + 30
\* minutes the guard answers TokenExpired (401), never InvalidToken.
C3_Original ==
    \A r \in Guarded :
        LET seg == ExtractToken(r.header)
        IN  (secret # NoSecret /\ Len(seg) = 1 /\ seg[1].k = "tok" /\ seg[1].t.wf
                 /\ r.guardAt > seg[1].t.iat + TokenLifetime)
                => TokenExpiredResponse(r)

\* C3 amended: for every token whose signature verifies against the guard's
\* secret, once the clock is past issuance + 30 minutes the guard answers
\* TokenExpired (401, "Token has expired. Please log in again."), never
\* InvalidToken and never success.
C3_ExpiredWhenSignatureValid ==
    \A r \in Guarded :
        LET seg == ExtractToken(r.header)
        IN  (SigValid(seg, secret) /\ r.guardAt > seg[1].t.iat + TokenLifetime)
                => TokenExpiredResponse(r) /\ r.handler = "none"

\* A validly signed token presented after its lifetime was answered 401.
C3_Witness ==
    /\ TokenExpiredResponse(last)
    /\ SigValid(ExtractToken(last.header), secret)
    /\ last.guardAt > ExtractToken(last.header)[1].t.iat + TokenLifetime

\* C4: a token signed with another secret, or one whose signature is
\* invalid or malformed, is answered InvalidToken (400, "Invalid token.")
\* at every clock value, also after the token's embedded expiry.
C4_InvalidSignatureIs400 ==
    \A r \in Guarded :
        LET seg == ExtractToken(r.header)
        IN  (seg # <<>> /\ ~SigValid(seg, secret))
                => /\ r.guard = "InvalidToken"
                   /\ r.status = 400
                   /\ r.message = "Invalid token."
                   /\ r.st = "done"

\* A token signed with the other secret, already expired, was answered 400.
C4_Witness ==
    /\ last.guard = "InvalidToken"
    /\ LET seg == ExtractToken(last.header)
       IN  /\ Len(seg) = 1 /\ seg[1].k = "tok" /\ seg[1].t.wf
           /\ seg[1].t.sig \in Secrets \ {secret}
           /\ secret # NoSecret
           /\ last.guardAt > seg[1].t.exp

\* s.split(d)
RECURSIVE SplitAt(_, _)
SplitAt(h, delims) ==
    IF h = <<>> THEN << <<>> >>
    ELSE LET rest == SplitAt(Tail(h), delims)
         IN  IF Head(h) \in delims THEN << <<>> >> \o rest
             ELSE << <<Head(h)>> \o rest[1] >> \o Tail(rest)

\* The segments of a header between single space characters.
SpaceSegments(h) == SplitAt(h, {SP})

\* The whitespace-delimited segments of a header.
WhitespaceSegments(h) == SelectSeq(SplitAt(h, {SP, TAB}), LAMBDA x : x # <<>>)

NoTokenResponse(r) ==
    /\ r.guard = "NoToken"
    /\ r.status = 401
    /\ r.message = "Access denied. No token provided."
    /\ r.st = "done"
    /\ r.handler = "none"

\* The guard verified the segment seg: it answered what the signature and
\* the expiry of seg decide.
VerifiedAs(r, seg) ==
    /\ r.guard # "NoToken"
    /\ (r.guard = "Authorized") <=> (SigValid(seg, secret) /\ r.guardAt < seg[1].t.exp)

\* C5 as stated: a request without the header, or whose header has no
\* second whitespace-delimited segment, is answered NoToken (401); a header
\* with a second whitespace-delimited segment has that segment verified as
\* the token, whatever the scheme word.
C5_Original ==
    \A r \in Guarded :
        LET w == WhitespaceSegments(r.header)
        IN  secret # NoSecret =>
                IF r.header = NoHeader \/ Len(w) < 2
                THEN NoTokenResponse(r)
                ELSE VerifiedAs(r, w[2])

\* C5 amended: a request without the header, or whose header split at each
\* single space character has no second segment or an empty one, is answered
\* NoToken (401, "Access denied. No token provided."); when that second
\* segment is not empty it is verified as the token, whatever the scheme
\* word in the first segment.
C5_SecondSpaceSegment ==
    \A r \in Guarded :
        LET s == SpaceSegments(r.header)
        IN  IF r.header = NoHeader \/ Len(s) < 2 \/ s[2] = <<>>
            THEN NoTokenResponse(r)
            ELSE VerifiedAs(r, s[2])

\* A header with a lone word was answered NoToken, and a token under the
\* scheme word "Token" was verified and authorized.
C5_Witness ==
    /\ NoTokenResponse(last)
    /\ last.header = <<Word("Bearer")>>
    /\ conn[1].guard = "Authorized"
    /\ conn[1].header[1] = Word("Token")

\* The token a request presents in the form "Bearer <token>".
Presented(r) == r.header[3].t

PresentsToken(r) == Len(r.header) = 3 /\ r.header[3].k = "tok"

LoginOk(r) == r.handler = "login" /\ r.status = 200

\* C2: the token login returns for a user row carries that row's user_id and
\* the server's signature, and presented to the guard at any clock value
\* inside its 30-minute window it is authorized with req.user.id equal to
\* the id issued.
C2_RoundTrip ==
    /\ \A r \in Reqs :
           LoginOk(r) => /\ r.token.wf
                         /\ r.token.id = r.user.id
                         /\ r.token.sig = secret
    /\ \A r \in Guarded :
           (/\ PresentsToken(r)
            /\ Presented(r).wf
            /\ Presented(r).sig = secret
            /\ r.guardAt >= Presented(r).iat
            /\ r.guardAt < Presented(r).iat + TokenLifetime)
               => r.guard = "Authorized" /\ r.user.id = Presented(r).id

\* The token of the login answered last is in flight on a later request, in
\* the last second of its window, authorized for the user it was issued to.
C2_Witness ==
    /\ LoginOk(last)
    /\ \E c \in Conns :
           /\ conn[c].header = Bearer(last.token)
           /\ conn[c].guard = "Authorized"
           /\ conn[c].guardAt = last.signedAt + TokenLifetime - 1
           /\ conn[c].user.id = last.user.id

\* C8: an issued token's expiry is its issuance time plus exactly 30
\* minutes, the guard's decoded claim still carries that expiry, and from
\* issuance + 30 minutes on no request presenting the token is authorized,
\* whatever was authorized with it before.
C8_FixedLifetime ==
    /\ \A r \in Reqs :
           LoginOk(r) => /\ r.token.iat = r.signedAt
                         /\ r.token.exp = r.signedAt + TokenLifetime
    /\ \A r \in Guarded :
           /\ r.guard = "Authorized"
                  => /\ r.user.exp = r.user.iat + TokenLifetime
                     /\ r.guardAt < r.user.iat + TokenLifetime
           /\ (PresentsToken(r) /\ Presented(r).wf
                   /\ r.guardAt >= Presented(r).iat + TokenLifetime)
                  => r.guard \in Rejections /\ r.handler = "none"

\* A request authorized with a token is still in flight when a later request
\* with the same token, made once the 30 minutes are over, is rejected.
C8_Witness ==
    /\ last.guard = "TokenExpired"
    /\ PresentsToken(last)
    /\ last.guardAt = Presented(last).iat + TokenLifetime
    /\ \E c \in Conns :
           /\ conn[c].guard = "Authorized"
           /\ conn[c].header = last.header

\* C9: whatever other requests are in flight, the guard's outcome and the
\* claim it attaches are decided by the request's own header and the clock:
\* two requests with the same header guarded at the same clock value have
\* the same outcome and the same req.user, and an authorized request's
\* req.user is the payload of its own token.
C9_OwnTokenOnly ==
    /\ \A r1 \in Guarded, r2 \in Guarded :
           (r1.header = r2.header /\ r1.guardAt = r2.guardAt)
               => r1.guard = r2.guard /\ r1.user = r2.user
    /\ \A r \in Guarded :
           r.guard = "Authorized" => r.user = Payload(Presented(r))

\* Two users' tokens are in flight at once, each request carrying its own
\* user's claim, after another request with the first token was answered.
C9_Witness ==
    /\ last.guard = "Authorized"
    /\ \E c1 \in Conns, c2 \in Conns :
           /\ conn[c1].guard = "Authorized"
           /\ conn[c2].guard = "Authorized"
           /\ conn[c1].header = last.header
           /\ conn[c1].guardAt = last.guardAt
           /\ conn[c2].user.id # conn[c1].user.id

\* C7: without a signing secret the service answers no request with a
\* signing failure: no login is answered 500 because jwt.sign threw, and no
\* guarded request is answered 400 because the guard had no secret.
C7_NoPerRequestSigningError ==
    \A r \in Reqs :
        secret = NoSecret =>
            /\ ~(r.handler = "login" /\ r.status = 500
                     /\ r.message = "secretOrPrivateKey must have a value")
            /\ ~(r.guard = "InvalidToken" /\ PresentsToken(r) /\ Presented(r).wf
                     /\ Presented(r).sig \in Secrets)

IsLogin(r) == r.method = "POST" /\ r.path = <<"login">>

ResourceHandlers == {"create", "update", "list", "getOne", "delete", "search"}

\* C6: of the requests received, the login request is served by the login
\* handler without passing the guard; every other request passes the guard
\* first, reaches a resource handler and the storage layer only when the
\* guard authorized it, and when the guard rejects it ends with the guard's
\* response, no handler run and no query issued.
C6_GuardBeforeHandlers ==
    \A r \in Reqs :
        r.st # "idle" =>
            /\ IsLogin(r) => r.guard = "none" /\ r.handler = "login"
            /\ ~IsLogin(r) => r.guard # "none" /\ r.handler # "login"
            /\ (r.handler \in ResourceHandlers \/ (r.queried /\ ~IsLogin(r)))
                   => r.guard = "Authorized"
            /\ r.guard \in Rejections
                   => /\ r.st = "done"
                      /\ r.handler = "none"
                      /\ ~r.queried
                      /\ r.status \in {400, 401}
                      /\ r.message \in {"Access denied. No token provided.",
                                        "Invalid token.",
                                        "Token has expired. Please log in again."}

\* A create request was rejected by the guard while a login and an authorized
\* update are in flight.
C6_Witness ==
    /\ last.guard \in Rejections
    /\ last.method = "POST"
    /\ last.path = <<>>
    /\ \E c1 \in Conns, c2 \in Conns :
           /\ conn[c1].handler = "login"
           /\ conn[c2].handler = "update"
           /\ conn[c2].guard = "Authorized"
           /\ conn[c2].queried

\* C10: every authorized request is handled by the handler registered for
\* its method and path; an authorized GET /search is handled by the search
\* handler, not by the GET /:id handler.
C10_SearchReachesSearchHandler ==
    \A r \in Reqs :
        (r.guard = "Authorized" /\ r.method = "GET" /\ r.path = <<"search">>)
            => r.handler = "search"
====
